---- MODULE Spec2Model ----
(***************************************************************************)
(* A model of keras_cv.bounding_box.convert_format (converters.py) and of  *)
(* the DenseNet model builder (models/densenet.py, models/utils.py).       *)
(*                                                                         *)
(* Tensors of floating-point numbers are modelled bit-exactly: a number is *)
(* m * 2^e with an odd mantissa m of at most Precision(dtype) bits, and    *)
(* every arithmetic operation rounds to nearest, ties to even, as IEEE-754 *)
(* arithmetic does.  The dtypes modelled are the two 16-bit ones that      *)
(* tf.cast accepts ("bfloat16", 8 significant bits, and "float16", 11),    *)
(* whose products fit the integers of the model checker; exponent overflow *)
(* and underflow are outside the value ranges used.                        *)
(***************************************************************************)
EXTENDS Integers, Naturals, Sequences, FiniteSets, TLC

VARIABLES
    boxes,      \* convert_format argument: the box tensor, a sequence of rows
    source,     \* convert_format argument: format identifier (sequence of characters)
    target,     \* convert_format argument: format identifier
    images,     \* convert_format argument: None or the shape of the image batch
    dtype,      \* convert_format argument
    out,        \* outcome of convert_format(boxes, source, target, images, dtype)
    back,       \* outcome of convert_format(out, target, source, images, dtype)
    call,       \* the model function called and the arguments the caller gave
    files,      \* the paths for which tf.io.gfile.exists is true
    args,       \* the arguments DenseNet runs with
    pc,         \* the position in the body of DenseNet
    layers,     \* the layer objects created so far, in order
    nodes,      \* the Keras tensors created so far, in order
    xv,         \* the local variable x of DenseNet: a tensor or a layer object
    img_input,  \* the local variable img_input of DenseNet (a tensor, 0 before)
    model,      \* the keras.Model built
    loads,      \* the paths given to model.load_weights, in order
    raised,     \* the exception DenseNet ended with, "" if none
    trace       \* the steps of DenseNet taken, in order

cvars == <<boxes, source, target, images, dtype, out, back>>

dvars == <<call, files, args, pc, layers, nodes, xv, img_input, model, loads, raised, trace>>

vars == <<cvars, dvars>>

\* images=None; an image batch is given by its shape <<batch, height, width, channels>>
NoImages == <<>>

-----------------------------------------------------------------------------
(* Floating-point numbers: [m |-> mantissa, e |-> exponent], value m * 2^e. *)

Abs(n) == IF n < 0 THEN -n ELSE n

Sign(n) == IF n < 0 THEN -1 ELSE 1

Min(a, b) == IF a <= b THEN a ELSE b

Max(a, b) == IF a >= b THEN a ELSE b

RECURSIVE BitLen(_)
BitLen(n) == IF n = 0 THEN 0 ELSE 1 + BitLen(n \div 2)

RECURSIVE Normalize(_, _)
Normalize(m, e) ==
    IF m = 0 THEN [m |-> 0, e |-> 0]
    ELSE IF m % 2 = 0 THEN Normalize(m \div 2, e + 1)
    ELSE [m |-> m, e |-> e]

Fl(m, e) == Normalize(m, e)

\* Round the exact value M * 2^E to P significant bits, nearest, ties to even.
RoundTo(M, E, P) ==
    LET a == Abs(M)
        k == BitLen(a) - P
    IN  IF k <= 0 THEN Normalize(M, E)
        ELSE LET q == a \div (2^k)
                 r == a % (2^k)
                 h == 2^(k - 1)
                 up == IF r > h \/ (r = h /\ q % 2 = 1) THEN q + 1 ELSE q
             IN  Normalize(Sign(M) * up, E + k)

FAdd(a, b, P) ==
    LET e == Min(a.e, b.e)
    IN  RoundTo(a.m * 2^(a.e - e) + b.m * 2^(b.e - e), e, P)

FNeg(a) == [m |-> -a.m, e |-> a.e]

FSub(a, b, P) == FAdd(a, FNeg(b), P)

FMul(a, b, P) == RoundTo(a.m * b.m, a.e + b.e, P)

\* b is not zero.  The quotient is computed to P+2 bits and the remainder
\* kept as a sticky bit, which rounds as the exact quotient does.
FDiv(a, b, P) ==
    IF a.m = 0 THEN [m |-> 0, e |-> 0]
    ELSE LET sh == Max(0, P + 2 + BitLen(Abs(b.m)) - BitLen(Abs(a.m)))
             N == Abs(a.m) * 2^sh
             q == N \div Abs(b.m)
             r == N % Abs(b.m)
             sticky == IF r = 0 THEN 0 ELSE 1
         IN  RoundTo(Sign(a.m) * Sign(b.m) * (2 * q + sticky), a.e - b.e - sh - 1, P)

\* Significant bits of a dtype.
Precision(d) == IF d = "bfloat16" THEN 8 ELSE 11

Two == [m |-> 1, e |-> 1]

-----------------------------------------------------------------------------
(* Format identifiers are strings, modelled as sequences of characters.     *)

UpperChars == <<"A","B","C","D","E","F","G","H","I","J","K","L","M",
                "N","O","P","Q","R","S","T","U","V","W","X","Y","Z">>

LowerChars == <<"a","b","c","d","e","f","g","h","i","j","k","l","m",
                "n","o","p","q","r","s","t","u","v","w","x","y","z">>

LowerChar(c) ==
    IF \E i \in DOMAIN UpperChars : UpperChars[i] = c
    THEN LowerChars[CHOOSE i \in DOMAIN UpperChars : UpperChars[i] = c]
    ELSE c

\* no lower-casing
lower_omitted(s) == s

\* str.lower()
lower(s) == [i \in DOMAIN s |-> LowerChar(s[i])]

XYWH == <<"x","y","w","h">>

CENTER_XYWH == <<"c","e","n","t","e","r","_","x","y","w","h">>

XYXY == <<"x","y","x","y">>

REL_XYXY == <<"r","e","l","_","x","y","x","y">>

-----------------------------------------------------------------------------
(* Tensors: a box tensor is a sequence of rows, a row a sequence of numbers *)
(* (four coordinates, then the payload).                                    *)

\* A converter ends by returning a tensor or by raising RequiresImagesException.
Value(t) == [raised |-> "", value |-> t]

RequiresImagesException == [raised |-> "RequiresImagesException", value |-> <<>>]

\* tf.cast(boxes, dtype)
tf_cast(t, d) == [i \in DOMAIN t |-> [j \in DOMAIN t[i] |-> RoundTo(t[i][j].m, t[i][j].e, Precision(d))]]

\* tf.cast of an integer dimension of tf.shape(images)
CastDim(n, P) == RoundTo(n, 0, P)

\* the fifth piece of tf.split(boxes, [1, 1, 1, 1, -1], axis=-1)
Rest(row) == SubSeq(row, 5, Len(row))

\* the centre moved by the whole width and height
center_xywh_to_xyxy_unhalved(t, imgs, P) == Value(
    [i \in DOMAIN t |->
        LET x == t[i][1]
            y == t[i][2]
            width == t[i][3]
            height == t[i][4]
        IN  << FSub(x, width, P), FSub(y, height, P),
               FAdd(x, width, P), FAdd(y, height, P) >>
            \o Rest(t[i])])

center_xywh_to_xyxy(t, imgs, P) == Value(
    [i \in DOMAIN t |->
        LET x == t[i][1]
            y == t[i][2]
            width == t[i][3]
            height == t[i][4]
        IN  << FSub(x, FDiv(width, Two, P), P), FSub(y, FDiv(height, Two, P), P),
               FAdd(x, FDiv(width, Two, P), P), FAdd(y, FDiv(height, Two, P), P) >>
            \o Rest(t[i])])

xywh_to_xyxy(t, imgs, P) == Value(
    [i \in DOMAIN t |->
        LET x == t[i][1]
            y == t[i][2]
            width == t[i][3]
            height == t[i][4]
        IN  << x, y, FAdd(x, width, P), FAdd(y, height, P) >> \o Rest(t[i])])

xyxy_no_op(t, imgs, P) == Value(t)

\* the concatenation without rest
xyxy_to_xywh_drops_rest(t, imgs, P) == Value(
    [i \in DOMAIN t |->
        LET left == t[i][1]
            top == t[i][2]
            right == t[i][3]
            bottom == t[i][4]
        IN  << left, top, FSub(right, left, P), FSub(bottom, top, P) >>])

xyxy_to_xywh(t, imgs, P) == Value(
    [i \in DOMAIN t |->
        LET left == t[i][1]
            top == t[i][2]
            right == t[i][3]
            bottom == t[i][4]
        IN  << left, top, FSub(right, left, P), FSub(bottom, top, P) >> \o Rest(t[i])])

xyxy_to_center_xywh(t, imgs, P) == Value(
    [i \in DOMAIN t |->
        LET left == t[i][1]
            top == t[i][2]
            right == t[i][3]
            bottom == t[i][4]
        IN  << FDiv(FAdd(left, right, P), Two, P), FDiv(FAdd(top, bottom, P), Two, P),
               FSub(right, left, P), FSub(bottom, top, P) >> \o Rest(t[i])])

rel_xyxy_to_xyxy(t, imgs, P) ==
    IF imgs = NoImages THEN RequiresImagesException
    ELSE LET height == CastDim(imgs[2], P)
             width == CastDim(imgs[3], P)
         IN  Value([i \in DOMAIN t |->
                << FMul(t[i][1], width, P), FMul(t[i][2], height, P),
                   FMul(t[i][3], width, P), FMul(t[i][4], height, P) >> \o Rest(t[i])])

\* height and width taken from the wrong axes of the shape
xyxy_to_rel_xyxy_axes_swapped(t, imgs, P) ==
    IF imgs = NoImages THEN RequiresImagesException
    ELSE LET height == CastDim(imgs[3], P)
             width == CastDim(imgs[2], P)
         IN  Value([i \in DOMAIN t |->
                << FDiv(t[i][1], width, P), FDiv(t[i][2], height, P),
                   FDiv(t[i][3], width, P), FDiv(t[i][4], height, P) >> \o Rest(t[i])])

xyxy_to_rel_xyxy(t, imgs, P) ==
    IF imgs = NoImages THEN RequiresImagesException
    ELSE LET height == CastDim(imgs[2], P)
             width == CastDim(imgs[3], P)
         IN  Value([i \in DOMAIN t |->
                << FDiv(t[i][1], width, P), FDiv(t[i][2], height, P),
                   FDiv(t[i][3], width, P), FDiv(t[i][4], height, P) >> \o Rest(t[i])])

\* the keys of TO_XYXY_CONVERTERS and of FROM_XYXY_CONVERTERS
ConverterKeys == {XYWH, CENTER_XYWH, XYXY, REL_XYXY}

TO_XYXY_CONVERTERS(fmt, t, imgs, P) ==
    CASE fmt = XYWH -> xywh_to_xyxy(t, imgs, P)
      [] fmt = CENTER_XYWH -> center_xywh_to_xyxy(t, imgs, P)
      [] fmt = XYXY -> xyxy_no_op(t, imgs, P)
      [] fmt = REL_XYXY -> rel_xyxy_to_xyxy(t, imgs, P)

FROM_XYXY_CONVERTERS(fmt, t, imgs, P) ==
    CASE fmt = XYWH -> xyxy_to_xywh(t, imgs, P)
      [] fmt = CENTER_XYWH -> xyxy_to_center_xywh(t, imgs, P)
      [] fmt = XYXY -> xyxy_no_op(t, imgs, P)
      [] fmt = REL_XYXY -> xyxy_to_rel_xyxy(t, imgs, P)

\* Outcomes of convert_format.  casted records whether tf.cast had run when
\* the call ended.
Returned(t) ==
    [kind |-> "return", boxes |-> t, casted |-> TRUE,
     msg |-> "", arg |-> "", valid |-> {}, got |-> <<>>]

UnsupportedFormat(argname, value) ==
    [kind |-> "ValueError", boxes |-> <<>>, casted |-> FALSE,
     msg |-> "received an unsupported format", arg |-> argname,
     valid |-> ConverterKeys, got |-> value]

MustReceiveImages ==
    [kind |-> "ValueError", boxes |-> <<>>, casted |-> TRUE,
     msg |-> "must receive images", arg |-> "images", valid |-> {}, got |-> <<>>]

NoError == Returned(<<>>)

\* a validation that reports the target first
CheckFormats_target_first(s, t) ==
    IF t \notin ConverterKeys THEN UnsupportedFormat("target", t)
    ELSE IF s \notin ConverterKeys THEN UnsupportedFormat("source", s)
    ELSE NoError

\* the two membership tests on the lower-cased identifiers
CheckFormats(s, t) ==
    IF s \notin ConverterKeys THEN UnsupportedFormat("source", s)
    ELSE IF t \notin ConverterKeys THEN UnsupportedFormat("target", t)
    ELSE NoError

\* the conversions without the except clause
Pivot_uncaught(cast, s, t, imgs, P) ==
    LET in_xyxy == TO_XYXY_CONVERTERS(s, cast, imgs, P)
        result == IF in_xyxy.raised # "" THEN in_xyxy
                  ELSE FROM_XYXY_CONVERTERS(t, in_xyxy.value, imgs, P)
    IN  IF result.raised # ""
        THEN [kind |-> result.raised, boxes |-> <<>>, casted |-> TRUE,
              msg |-> "", arg |-> "", valid |-> {}, got |-> <<>>]
        ELSE Returned(result.value)

\* source -> xyxy -> target; RequiresImagesException becomes a ValueError
Pivot(cast, s, t, imgs, P) ==
    LET in_xyxy == TO_XYXY_CONVERTERS(s, cast, imgs, P)
        result == IF in_xyxy.raised # "" THEN in_xyxy
                  ELSE FROM_XYXY_CONVERTERS(t, in_xyxy.value, imgs, P)
    IN  IF result.raised = "RequiresImagesException"
        THEN MustReceiveImages
        ELSE Returned(result.value)

\* convert_format without the early return for source = target
convert_format_always_pivots(b, src, tgt, imgs, d) ==
    LET s == lower(src)
        t == lower(tgt)
    IN  IF CheckFormats(s, t) # NoError THEN CheckFormats(s, t)
        ELSE Pivot(tf_cast(b, d), s, t, imgs, Precision(d))

convert_format(b, src, tgt, imgs, d) ==
    LET s == lower(src)
        t == lower(tgt)
    IN  IF CheckFormats(s, t) # NoError THEN CheckFormats(s, t)
        ELSE LET cast == tf_cast(b, d)
             IN  IF s = t THEN Returned(cast)
                 ELSE Pivot(cast, s, t, imgs, Precision(d))

-----------------------------------------------------------------------------
(* The calls explored.                                                      *)

MaxBoxes == 2

MaxRest == 2

\* Rows of four coordinates, as the caller holds them (before any cast):
\* the boxes of converters_test.py, then boxes whose values need rounding.
TestSeeds == <<
    << Fl(10, 0), Fl(10, 0), Fl(110, 0), Fl(110, 0) >>,
    << Fl(60, 0), Fl(60, 0), Fl(100, 0), Fl(100, 0) >>,
    << Fl(10, 0), Fl(10, 0), Fl(100, 0), Fl(100, 0) >>,
    << Fl(5368709, -29), Fl(5368709, -29), Fl(7381975, -26), Fl(7381975, -26) >>,
    << Fl(1, 0), Fl(3, 0), Fl(40, 0), Fl(7, 0) >>,
    << Fl(257, 0), Fl(513, 0), Fl(1001, 0), Fl(2049, 0) >>,
    << Fl(-1, -1), Fl(1, -2), Fl(15, -2), Fl(801, -3) >>,
    << Fl(0, 0), Fl(0, 0), Fl(0, 0), Fl(0, 0) >> >>

\* 0.25, 3, -4.625, 297, 85.3125
GridValues == << Fl(1, -2), Fl(3, 0), Fl(-37, -3), Fl(297, 0), Fl(1365, -4) >>

\* every pair of grid values on the x axis, and the reversed pair on the y axis
GridSeeds ==
    [i \in 1..(Len(GridValues) * Len(GridValues)) |->
        LET a == GridValues[((i - 1) \div Len(GridValues)) + 1]
            c == GridValues[((i - 1) % Len(GridValues)) + 1]
        IN  << a, c, c, a >>]

Seeds == TestSeeds \o GridSeeds

\* The j-th payload field of a row: a class id, a confidence, further metadata.
PayloadField(i, j) ==
    CASE j = 1 -> Fl(256 + i, 0)
      [] j = 2 -> Fl(7549747, -23)
      [] OTHER -> Fl(j, 0)

\* The batch of n rows starting at seed `start`, each with k payload fields.
Batch(start, n, k) ==
    [i \in 1..n |-> Seeds[((start + i - 2) % Len(Seeds)) + 1] \o [j \in 1..k |-> PayloadField(i, j)]]

Batches == {Batch(st, n, k) : st \in DOMAIN Seeds, n \in 1..MaxBoxes, k \in 0..MaxRest}

\* Shapes of image batches: that of converters_test.py, and one whose sides differ.
ImageShapes == {<<2, 1000, 1000, 3>>, <<2, 48, 41, 3>>}

DTypes == {"bfloat16", "float16"}

Identifiers ==
    ConverterKeys \cup
    { <<"x","y","W","H">>,
      <<"y","o","l","o">>,
      <<"x","y","x","y"," ">> }

NotCalled ==
    [kind |-> "not called", boxes |-> <<>>, casted |-> FALSE,
     msg |-> "", arg |-> "", valid |-> {}, got |-> <<>>]

NoModel == [built |-> FALSE, inputs |-> 0, output |-> 0, name |-> ""]

\* no model function is being called
DenseNetIdle ==
    /\ call = <<>>
    /\ files = {}
    /\ args = <<>>
    /\ pc = "idle"
    /\ layers = <<>>
    /\ nodes = <<>>
    /\ xv = [kind |-> "unset", id |-> 0]
    /\ img_input = 0
    /\ model = NoModel
    /\ loads = <<>>
    /\ raised = ""
    /\ trace = <<>>

Init ==
    /\ boxes \in Batches
    /\ source \in Identifiers
    /\ target \in Identifiers
    /\ images \in {NoImages} \cup ImageShapes
    /\ dtype \in DTypes
    /\ out = NotCalled
    /\ back = NotCalled
    /\ DenseNetIdle

\* out = convert_format(boxes, source, target, images, dtype)
Convert ==
    /\ out = NotCalled
    /\ out' = convert_format(boxes, source, target, images, dtype)
    /\ UNCHANGED <<boxes, source, target, images, dtype, back, dvars>>

\* back = convert_format(out, target, source, images, dtype)
ConvertBack ==
    /\ out.kind = "return"
    /\ back = NotCalled
    /\ back' = convert_format(out.boxes, target, source, images, dtype)
    /\ UNCHANGED <<boxes, source, target, images, dtype, out, dvars>>

Next == Convert \/ ConvertBack

Spec == Init /\ [][Next]_vars

\* Every spelling of the identifiers: each letter in either case.
UpperChar(c) ==
    IF \E i \in DOMAIN LowerChars : LowerChars[i] = c
    THEN UpperChars[CHOOSE i \in DOMAIN LowerChars : LowerChars[i] = c]
    ELSE c

CaseVariants(c) ==
    {[i \in DOMAIN c |-> IF i \in U THEN UpperChar(c[i]) ELSE c[i]] : U \in SUBSET DOMAIN c}

LowerIdentifiers == ConverterKeys \cup { <<"y","o","l","o">>, <<"x","y","x","y"," ">> }

AllSpellings == UNION {CaseVariants(c) : c \in LowerIdentifiers}

\* Calls in which one identifier ranges over every spelling.
InitSpellings ==
    /\ boxes = Batch(7, 1, 1)
    /\ \/ source \in AllSpellings /\ target \in Identifiers
       \/ source \in Identifiers /\ target \in AllSpellings
    /\ images \in {NoImages, <<2, 48, 41, 3>>}
    /\ dtype \in DTypes
    /\ out = NotCalled
    /\ back = NotCalled
    /\ DenseNetIdle

SpecSpellings == InitSpellings /\ [][Next]_vars

-----------------------------------------------------------------------------
(* DenseNet (models/densenet.py).  A layer object is [type, name, arg, act]: *)
(* arg is its filters, units, kernel, pool size or padding, where it has one. *)
(* A Keras tensor is [layer, inputs, shape]: the layer whose call made it    *)
(* (0 when the caller made it), the tensors that call took, and its shape,   *)
(* batch axis first.  Tensors and layers are named by their position.        *)

\* None as a dimension of a shape
NoneDim == -1

BN_AXIS == 3

None == "None"

\* the caller did not pass the argument
Omitted == "<omitted>"

Layer(type, name, arg, act) == [type |-> type, name |-> name, arg |-> arg, act |-> act]

\* The graph under construction: g.layers, g.nodes and the tensor g.x.
\* layer(...)(inputs): creates the layer and calls it.
CallOn(g, l, inputs, shape) ==
    [layers |-> Append(g.layers, l),
     nodes |-> Append(g.nodes, [layer |-> Len(g.layers) + 1, inputs |-> inputs, shape |-> shape]),
     x |-> Len(g.nodes) + 1]

CallLayer(g, l, shape) == CallOn(g, l, <<g.x>>, shape)

ShapeOf(g) == g.nodes[g.x].shape

\* output length of a convolution or pooling without padding
ValidOut(n, k, stride) == IF n = NoneDim THEN NoneDim ELSE ((n - k) \div stride) + 1

Padded(n, p) == IF n = NoneDim THEN NoneDim ELSE n + 2 * p

WithChannels(shape, c) == [shape EXCEPT ![BN_AXIS + 1] = c]

BatchNormalization(g, name) ==
    CallLayer(g, Layer("BatchNormalization", name, BN_AXIS, ""), ShapeOf(g))

Relu(g, name) == CallLayer(g, Layer("Activation", name, 0, "relu"), ShapeOf(g))

conv_block(g, growth_rate, name) ==
    LET g1 == BatchNormalization(g, name \o <<"_0_bn">>)
        g2 == Relu(g1, name \o <<"_0_relu">>)
        g3 == CallLayer(g2, Layer("Conv2D", name \o <<"_1_conv">>, 4 * growth_rate, ""),
                        WithChannels(ShapeOf(g2), 4 * growth_rate))
        g4 == BatchNormalization(g3, name \o <<"_1_bn">>)
        g5 == Relu(g4, name \o <<"_1_relu">>)
        g6 == CallLayer(g5, Layer("Conv2D", name \o <<"_2_conv">>, growth_rate, ""),
                        WithChannels(ShapeOf(g5), growth_rate))
    IN  CallOn(g6, Layer("Concatenate", name \o <<"_concat">>, BN_AXIS, ""), <<g.x, g6.x>>,
               WithChannels(ShapeOf(g), ShapeOf(g)[BN_AXIS + 1] + ShapeOf(g6)[BN_AXIS + 1]))

\* the loop of dense_block from its i-th turn on
RECURSIVE dense_block_from(_, _, _, _)
dense_block_from(g, i, blocks, name) ==
    IF i > blocks THEN g
    ELSE dense_block_from(conv_block(g, 32, <<name, "_block", i>>), i + 1, blocks, name)

dense_block(g, blocks, name) == dense_block_from(g, 1, blocks, name)

\* reduction is 0.5 at every use: int(channels * 0.5)
transition_block(g, name) ==
    LET g1 == BatchNormalization(g, <<name, "_bn">>)
        g2 == Relu(g1, <<name, "_relu">>)
        g3 == CallLayer(g2, Layer("Conv2D", <<name, "_conv">>, ShapeOf(g2)[BN_AXIS + 1] \div 2, ""),
                        WithChannels(ShapeOf(g2), ShapeOf(g2)[BN_AXIS + 1] \div 2))
        s == ShapeOf(g3)
    IN  CallLayer(g3, Layer("AveragePooling2D", <<name, "_pool">>, 2, ""),
                  <<s[1], ValidOut(s[2], 2, 2), ValidOut(s[3], 2, 2), s[4]>>)

_get_name(blocks) ==
    CASE blocks = <<6, 12, 24, 16>> -> "densenet121"
      [] blocks = <<6, 12, 32, 32>> -> "densenet169"
      [] blocks = <<6, 12, 48, 32>> -> "densenet201"
      [] OTHER -> "densenet"

_apply_classifier(g, classes, classifier_activation) ==
    LET g1 == CallLayer(g, Layer("GlobalAveragePooling2D", <<"avg_pool">>, 0, ""),
                        <<ShapeOf(g)[1], ShapeOf(g)[BN_AXIS + 1]>>)
    IN  CallLayer(g1, Layer("Dense", <<"predictions">>, classes, classifier_activation),
                  <<ShapeOf(g1)[1], classes>>)

\* global average pooling whenever a pooling is asked for
_apply_pooling_layer_always_avg(g, pooling) ==
    IF pooling = "avg" \/ pooling = "max"
    THEN CallLayer(g, Layer("GlobalAveragePooling2D", <<"avg_pool">>, 0, ""),
                   <<ShapeOf(g)[1], ShapeOf(g)[BN_AXIS + 1]>>)
    ELSE g

_apply_pooling_layer(g, pooling) ==
    IF pooling = "avg"
    THEN CallLayer(g, Layer("GlobalAveragePooling2D", <<"avg_pool">>, 0, ""),
                   <<ShapeOf(g)[1], ShapeOf(g)[BN_AXIS + 1]>>)
    ELSE IF pooling = "max"
    THEN CallLayer(g, Layer("GlobalMaxPooling2D", <<"max_pool">>, 0, ""),
                   <<ShapeOf(g)[1], ShapeOf(g)[BN_AXIS + 1]>>)
    ELSE g

\* utils.get_input_tensor: input_tensor is None, a Keras tensor the caller
\* made, or a tensor that is not a Keras tensor.
get_input_tensor(g, input_shape, input_tensor) ==
    IF input_tensor = None
    THEN CallOn(g, Layer("InputLayer", <<>>, 0, ""), <<>>, <<NoneDim>> \o input_shape)
    ELSE IF input_tensor # "keras tensor"
    THEN CallOn(g, Layer("InputLayer", <<>>, 0, input_tensor), <<>>, <<NoneDim>> \o input_shape)
    ELSE [layers |-> g.layers,
          nodes |-> Append(g.nodes, [layer |-> 0, inputs |-> <<>>, shape |-> <<NoneDim>> \o input_shape]),
          x |-> Len(g.nodes) + 1]

\* the graph the variables hold
Graph == [layers |-> layers, nodes |-> nodes, x |-> xv.id]

Tensor(id) == [kind |-> "tensor", id |-> id]


\* no convert_format call is being made
ConverterIdle ==
    /\ boxes = <<>>
    /\ source = <<>>
    /\ target = <<>>
    /\ images = NoImages
    /\ dtype = ""
    /\ out = NotCalled
    /\ back = NotCalled

MaxBlocks == 2

ModelFunctions == {"DenseNet121", "DenseNet169", "DenseNet201", "DenseNet"}

\* the blocks a caller of DenseNet passes
CallerBlocks == {<<n, n, n, n>> : n \in 1..MaxBlocks}

Paths == {"imagenet", "/ckpt/densenet.h5"}

Calls ==
    [fn : ModelFunctions,
     blocks : CallerBlocks,
     include_preprocessing : BOOLEAN,
     include_top : {Omitted, "False"},
     weights : {Omitted, None, "/ckpt/densenet.h5"},
     input_tensor : {None, "keras tensor"},
     input_shape : {<<Omitted>>, <<224, 224, 3>>, <<64, NoneDim, 3>>},
     pooling : {None, "avg", "max"},
     classes : {1000, 10},
     classifier_activation : {"softmax", None}]

InitDenseNet ==
    /\ ConverterIdle
    /\ call \in {c \in Calls :
                    /\ c.fn # "DenseNet" => c.blocks = <<1, 1, 1, 1>>
                    /\ (c.classes = 1000) = (c.classifier_activation = "softmax")}
    /\ files \in {{}, Paths}
    /\ args = <<>>
    /\ pc = "call"
    /\ layers = <<>>
    /\ nodes = <<>>
    /\ xv = [kind |-> "unset", id |-> 0]
    /\ img_input = 0
    /\ model = NoModel
    /\ loads = <<>>
    /\ raised = ""
    /\ trace = <<>>

Step(name, next) == pc = name /\ pc' = next /\ trace' = Append(trace, name)

\* The call binds the parameters of DenseNet: DenseNet121, DenseNet169 and
\* DenseNet201 pass their blocks and their own default for weights.
Enter ==
    /\ Step("call", "check_weights")
    /\ args' = [blocks |-> CASE call.fn = "DenseNet121" -> <<6, 12, 24, 16>>
                             [] call.fn = "DenseNet169" -> <<6, 12, 32, 32>>
                             [] call.fn = "DenseNet201" -> <<6, 12, 48, 32>>
                             [] OTHER -> call.blocks,
                include_preprocessing |-> call.include_preprocessing,
                include_top |-> IF call.include_top = Omitted THEN TRUE
                                ELSE call.include_top = "True",
                weights |-> IF call.weights # Omitted THEN call.weights
                            ELSE IF call.fn = "DenseNet" THEN None ELSE "imagenet",
                input_tensor |-> call.input_tensor,
                input_shape |-> IF call.input_shape = <<Omitted>>
                                THEN <<NoneDim, NoneDim, 3>> ELSE call.input_shape,
                pooling |-> call.pooling,
                classes |-> call.classes,
                classifier_activation |-> call.classifier_activation]
    /\ UNCHANGED <<cvars, call, files, layers, nodes, xv, img_input, model, loads, raised>>

Raise(name, what) ==
    /\ pc = name
    /\ pc' = "raised"
    /\ trace' = Append(trace, name)
    /\ raised' = what

\* tf.io.gfile.exists(weights)
Exists(path) == path \in files

\* the weights test skipped
WeightsAccepted_unchecked == TRUE

\* weights in {None} or tf.io.gfile.exists(weights)
WeightsAccepted == args.weights = None \/ Exists(args.weights)

CheckWeights ==
    /\ pc = "check_weights"
    /\ IF ~WeightsAccepted
       THEN Raise("check_weights", "ValueError: weights")
       ELSE Step("check_weights", "check_input_shape") /\ UNCHANGED raised
    /\ UNCHANGED <<cvars, call, files, args, layers, nodes, xv, img_input, model, loads>>

\* the test of the first dimension only
NoneIn_first_only(input_shape) == input_shape[1] = NoneDim

\* None in input_shape
NoneIn(input_shape) == \E i \in DOMAIN input_shape : input_shape[i] = NoneDim

CheckInputShape ==
    /\ pc = "check_input_shape"
    /\ IF args.include_top /\ NoneIn(args.input_shape)
       THEN Raise("check_input_shape", "ValueError: input_shape")
       ELSE Step("check_input_shape", "input") /\ UNCHANGED raised
    /\ UNCHANGED <<cvars, call, files, args, layers, nodes, xv, img_input, model, loads>>

\* img_input = utils.get_input_tensor(input_shape, input_tensor)
GetInputTensor ==
    /\ Step("input", "preprocessing")
    /\ LET g == get_input_tensor(Graph, args.input_shape, args.input_tensor)
       IN  /\ layers' = g.layers
           /\ nodes' = g.nodes
           /\ img_input' = g.x
    /\ UNCHANGED <<cvars, call, files, args, xv, model, loads, raised>>

\* if include_preprocessing: x = layers.Rescaling(1 / 255.0)
Preprocessing ==
    /\ Step("preprocessing", "stem")
    /\ IF args.include_preprocessing
       THEN /\ layers' = Append(layers, Layer("Rescaling", <<>>, 0, "scale=1/255.0"))
            /\ xv' = [kind |-> "layer", id |-> Len(layers) + 1]
       ELSE UNCHANGED <<layers, xv>>
    /\ UNCHANGED <<cvars, call, files, args, nodes, img_input, model, loads, raised>>

\* the six layers from ZeroPadding2D to pool1
Stem ==
    /\ Step("stem", "conv2")
    /\ LET s0 == nodes[img_input].shape
           g1 == CallOn(Graph, Layer("ZeroPadding2D", <<>>, 3, ""), <<img_input>>,
                        <<s0[1], Padded(s0[2], 3), Padded(s0[3], 3), s0[4]>>)
           s1 == ShapeOf(g1)
           g2 == CallLayer(g1, Layer("Conv2D", <<"conv1/conv">>, 64, ""),
                           <<s1[1], ValidOut(s1[2], 7, 2), ValidOut(s1[3], 7, 2), 64>>)
           g3 == BatchNormalization(g2, <<"conv1/bn">>)
           g4 == Relu(g3, <<"conv1/relu">>)
           s4 == ShapeOf(g4)
           g5 == CallLayer(g4, Layer("ZeroPadding2D", <<>>, 1, ""),
                           <<s4[1], Padded(s4[2], 1), Padded(s4[3], 1), s4[4]>>)
           s5 == ShapeOf(g5)
           g6 == CallLayer(g5, Layer("MaxPooling2D", <<"pool1">>, 3, ""),
                           <<s5[1], ValidOut(s5[2], 3, 2), ValidOut(s5[3], 3, 2), s5[4]>>)
       IN  /\ layers' = g6.layers
           /\ nodes' = g6.nodes
           /\ xv' = Tensor(g6.x)
    /\ UNCHANGED <<cvars, call, files, args, img_input, model, loads, raised>>

DenseStages == <<"conv2", "conv3", "conv4", "conv5">>

AfterDense == <<"pool2", "pool3", "pool4", "bn">>

\* x = dense_block(x, blocks[k], name=...)
DenseBlock ==
    \E k \in DOMAIN DenseStages :
        /\ Step(DenseStages[k], AfterDense[k])
        /\ LET g == dense_block(Graph, args.blocks[k], DenseStages[k])
           IN  /\ layers' = g.layers
               /\ nodes' = g.nodes
               /\ xv' = Tensor(g.x)
        /\ UNCHANGED <<cvars, call, files, args, img_input, model, loads, raised>>

\* x = transition_block(x, 0.5, name=...)
TransitionBlock ==
    \E k \in 1..3 :
        /\ Step(AfterDense[k], DenseStages[k + 1])
        /\ LET g == transition_block(Graph, AfterDense[k])
           IN  /\ layers' = g.layers
               /\ nodes' = g.nodes
               /\ xv' = Tensor(g.x)
        /\ UNCHANGED <<cvars, call, files, args, img_input, model, loads, raised>>

\* the last BatchNormalization and Activation
FinalNorm ==
    /\ Step("bn", "head")
    /\ LET g == Relu(BatchNormalization(Graph, <<"bn">>), <<"relu">>)
       IN  /\ layers' = g.layers
           /\ nodes' = g.nodes
           /\ xv' = Tensor(g.x)
    /\ UNCHANGED <<cvars, call, files, args, img_input, model, loads, raised>>

ApplyHead ==
    /\ Step("head", "model")
    /\ LET g == IF args.include_top
                THEN _apply_classifier(Graph, args.classes, args.classifier_activation)
                ELSE _apply_pooling_layer(Graph, args.pooling)
       IN  /\ layers' = g.layers
           /\ nodes' = g.nodes
           /\ xv' = Tensor(g.x)
    /\ UNCHANGED <<cvars, call, files, args, img_input, model, loads, raised>>

\* keras.utils.get_source_inputs of a Keras tensor the caller made with
\* layers.Input is that tensor, which is img_input
BuildModel ==
    /\ Step("model", "load_weights")
    /\ model' = [built |-> TRUE, inputs |-> img_input, output |-> xv.id,
                 name |-> _get_name(args.blocks)]
    /\ UNCHANGED <<cvars, call, files, args, layers, nodes, xv, img_input, loads, raised>>

\* if weights is not None: model.load_weights(weights); return model
LoadWeights ==
    /\ Step("load_weights", "returned")
    /\ loads' = IF args.weights # None THEN Append(loads, args.weights) ELSE loads
    /\ UNCHANGED <<cvars, call, files, args, layers, nodes, xv, img_input, model, raised>>

NextDenseNet ==
    \/ Enter
    \/ CheckWeights
    \/ CheckInputShape
    \/ GetInputTensor
    \/ Preprocessing
    \/ Stem
    \/ DenseBlock
    \/ TransitionBlock
    \/ FinalNorm
    \/ ApplyHead
    \/ BuildModel
    \/ LoadWeights

SpecDenseNet == InitDenseNet /\ [][NextDenseNet]_vars

-----------------------------------------------------------------------------
(* Vocabulary of the properties of convert_format.                          *)

\* Exact arithmetic on numbers (no rounding).
XAdd(a, b) ==
    LET e == Min(a.e, b.e)
    IN  Normalize(a.m * 2^(a.e - e) + b.m * 2^(b.e - e), e)

XSub(a, b) == XAdd(a, FNeg(b))

XMulInt(a, n) == Normalize(a.m * n, a.e)

XHalf(a) == IF a.m = 0 THEN a ELSE [m |-> a.m, e |-> a.e - 1]

XAbs(a) == [m |-> Abs(a.m), e |-> a.e]

\* position of the leading bit of a non-zero number
Height(a) == BitLen(Abs(a.m)) + a.e

\* a <= b for a, b >= 0
XLeq(a, b) ==
    IF a.m = 0 THEN TRUE
    ELSE IF b.m = 0 THEN FALSE
    ELSE IF Height(a) < Height(b) THEN TRUE
    ELSE IF Height(a) > Height(b) THEN FALSE
    ELSE LET e == Min(a.e, b.e) IN a.m * 2^(a.e - e) <= b.m * 2^(b.e - e)

XMax(a, b) == IF XLeq(a, b) THEN b ELSE a

\* |a - c| <= 16 * 2^(-P) * mag: a and c agree to within the rounding of a
\* few operations in P-bit arithmetic on numbers of magnitude mag.
Close(a, c, mag, P) ==
    IF a = c THEN TRUE
    ELSE IF mag.m = 0 THEN FALSE
    ELSE IF Height(a) > Height(mag) + 3 \/ Height(c) > Height(mag) + 3 THEN FALSE
    ELSE LET d == XAbs(XSub(a, c))
         IN  XLeq([m |-> d.m, e |-> d.e + P], [m |-> 16 * mag.m, e |-> mag.e])

Coords(t) == [i \in DOMAIN t |-> SubSeq(t[i], 1, 4)]

ValidPair == lower(source) \in ConverterKeys /\ lower(target) \in ConverterKeys

\* the tensor convert_format works on
Given == tf_cast(boxes, dtype)

\* the two coordinates of a row that lie on the same axis as coordinate j
AxisMag(row, j) ==
    IF j % 2 = 1 THEN XMax(XAbs(row[1]), XAbs(row[3])) ELSE XMax(XAbs(row[2]), XAbs(row[4]))

\* The rectangle <<left, top, right, bottom>>, in pixels, that a row describes
\* in format fmt, computed exactly; imgs gives the image size for rel_xyxy.
Rectangle(fmt, row, imgs) ==
    CASE fmt = XYXY -> SubSeq(row, 1, 4)
      [] fmt = XYWH -> << row[1], row[2], XAdd(row[1], row[3]), XAdd(row[2], row[4]) >>
      [] fmt = CENTER_XYWH ->
            << XSub(row[1], XHalf(row[3])), XSub(row[2], XHalf(row[4])),
               XAdd(row[1], XHalf(row[3])), XAdd(row[2], XHalf(row[4])) >>
      [] fmt = REL_XYXY ->
            << XMulInt(row[1], imgs[3]), XMulInt(row[2], imgs[2]),
               XMulInt(row[3], imgs[3]), XMulInt(row[4], imgs[2]) >>

\* the largest magnitude, on the axis of edge j, among the edges of the
\* rectangle and its width or height
RectMag(r, j) ==
    LET a == IF j % 2 = 1 THEN 1 ELSE 2
    IN  XMax(XMax(XAbs(r[a]), XAbs(r[a + 2])), XAbs(XSub(r[a + 2], r[a])))

\* the number of dtype d nearest to n / k
Nearest(n, k, d) == FDiv(Fl(n, 0), Fl(k, 0), Precision(d))

-----------------------------------------------------------------------------
(* C1 - round trip.                                                         *)

\* C1 as stated: after converting source -> target -> source with the same
\* images, every box has exactly the four coordinates it started with (taken
\* in the dtype the call works in).
RoundTripExact ==
    (back.kind = "return" /\ images # NoImages)
        => Coords(back.boxes) = Coords(Given)

\* C1, amended: after converting source -> target -> source with the same
\* images, every coordinate of every box is within floating-point tolerance
\* of the one it started with: it differs by at most 16 * 2^(-p) times the
\* largest magnitude among the box's two coordinates on that axis, p being
\* the number of significant bits of dtype.
RoundTripWithinTolerance ==
    (back.kind = "return" /\ images # NoImages)
        => /\ DOMAIN back.boxes = DOMAIN Given
           /\ \A i \in DOMAIN Given :
                /\ Len(back.boxes[i]) = Len(Given[i])
                /\ \A j \in 1..4 :
                     Close(back.boxes[i][j], Given[i][j], AxisMag(Given[i], j), Precision(dtype))

\* A round trip between two different formats, with images, that returned
\* coordinates other than the ones it started with.
RoundTripInexactReached ==
    /\ back.kind = "return"
    /\ images # NoImages
    /\ lower(source) # lower(target)
    /\ Coords(back.boxes) # Coords(Given)

-----------------------------------------------------------------------------
(* C2 - the result describes the same rectangle in the target convention.   *)

\* The rectangle a row of the result describes in the target format is the
\* rectangle the row of the input describes in the source format, edge by
\* edge, within floating-point tolerance.
SameRectangle ==
    \A i \in DOMAIN Given :
        LET want == Rectangle(lower(source), Given[i], images)
            have == Rectangle(lower(target), out.boxes[i], images)
        IN  \A j \in 1..4 : Close(have[j], want[j], RectMag(want, j), Precision(dtype))

\* C2: for distinct valid formats convert_format returns
\* FROM_XYXY[target](TO_XYXY[source](boxes)), and that is the same rectangle
\* written in the target convention (xywh: left, top, right-left, bottom-top;
\* center_xywh: the centre, then the same sizes; rel_xyxy: x over the image
\* width, y over the image height).  xyxy [10,10,110,110] in a 1000x1000 image
\* gives rel_xyxy [0.01,0.01,0.11,0.11] (the nearest numbers of the dtype) and
\* center_xywh [60,60,100,100] gives xywh [10,10,100,100].
ConvertsToTargetConvention ==
    (out.kind = "return" /\ ValidPair /\ lower(source) # lower(target))
        => /\ DOMAIN out.boxes = DOMAIN Given
           /\ out.boxes =
                FROM_XYXY_CONVERTERS(lower(target),
                    TO_XYXY_CONVERTERS(lower(source), Given, images, Precision(dtype)).value,
                    images, Precision(dtype)).value
           /\ SameRectangle
           /\ (/\ lower(source) = XYXY
               /\ lower(target) = REL_XYXY
               /\ images = <<2, 1000, 1000, 3>>
               /\ Coords(boxes)[1] = << Fl(10, 0), Fl(10, 0), Fl(110, 0), Fl(110, 0) >>)
                 => Coords(out.boxes)[1] =
                        << Nearest(1, 100, dtype), Nearest(1, 100, dtype),
                           Nearest(11, 100, dtype), Nearest(11, 100, dtype) >>
           /\ (/\ lower(source) = CENTER_XYWH
               /\ lower(target) = XYWH
               /\ Coords(boxes)[1] = << Fl(60, 0), Fl(60, 0), Fl(100, 0), Fl(100, 0) >>)
                 => Coords(out.boxes)[1] = << Fl(10, 0), Fl(10, 0), Fl(100, 0), Fl(100, 0) >>

\* The two literal conversions of converters_test.py have been made.
TestConversionReached ==
    /\ out.kind = "return"
    /\ lower(source) = XYXY
    /\ lower(target) = REL_XYXY
    /\ images = <<2, 1000, 1000, 3>>
    /\ Coords(boxes)[1] = << Fl(10, 0), Fl(10, 0), Fl(110, 0), Fl(110, 0) >>
    /\ Len(boxes) = 2
    /\ Coords(out.boxes)[2] # Coords(boxes)[2]

-----------------------------------------------------------------------------
(* C3 - relative conversions need images.                                   *)

ExactlyOneRelative == (lower(source) = REL_XYXY) # (lower(target) = REL_XYXY)

\* C3: a call between valid formats of which exactly one is rel_xyxy, made
\* with images=None, ends with the error saying that images must be supplied,
\* which is not the unsupported-format error, and returns no boxes.
RelativeRequiresImages ==
    (out.kind # "not called" /\ ValidPair /\ ExactlyOneRelative /\ images = NoImages)
        => /\ out.kind = "ValueError"
           /\ out.msg = "must receive images"
           /\ out.arg = "images"
           /\ out.msg # UnsupportedFormat("source", lower(source)).msg
           /\ out.boxes = <<>>

\* A relative target was asked for without images, from a format whose own
\* conversion to corners needs none.
MissingImagesReached ==
    /\ out.kind = "ValueError"
    /\ lower(source) = CENTER_XYWH
    /\ lower(target) = REL_XYXY
    /\ images = NoImages

-----------------------------------------------------------------------------
(* C4 - unsupported formats.                                                *)

\* C4: when the lower-cased source or target is not a supported format the
\* call ends with the unsupported-format ValueError, which lists the valid
\* formats, before the cast: also when source equals target and when images is
\* None; when both are unsupported the error is about the source.
UnsupportedFormatRejected ==
    (out.kind # "not called" /\ ~ValidPair)
        => /\ out.kind = "ValueError"
           /\ out.msg = "received an unsupported format"
           /\ out.valid = {XYWH, CENTER_XYWH, XYXY, REL_XYXY}
           /\ ~out.casted
           /\ out.boxes = <<>>
           /\ out.arg = (IF lower(source) \notin {XYWH, CENTER_XYWH, XYXY, REL_XYXY}
                         THEN "source" ELSE "target")
           /\ out.got = (IF out.arg = "source" THEN lower(source) ELSE lower(target))

\* Both identifiers unsupported and equal, no images.
BothUnsupportedReached ==
    /\ out.kind = "ValueError"
    /\ lower(source) \notin ConverterKeys
    /\ source = target
    /\ images = NoImages

-----------------------------------------------------------------------------
(* C5 - identifiers are case-insensitive.                                   *)

\* s is c with some letters capitalised
SpelledAs(s, c) ==
    /\ Len(s) = Len(c)
    /\ \A i \in DOMAIN c : s[i] = c[i] \/ s[i] = UpperChar(c[i])

\* the all-lower-case spelling of an identifier
LowerSpelling(s) == CHOOSE c \in LowerIdentifiers : SpelledAs(s, c)

\* C5: the outcome of a call (the boxes returned, or the error) is the outcome
\* of the same call with the identifiers spelled in lower case, however the
\* letters of source and target are capitalised.
CaseInsensitive ==
    out.kind # "not called"
        => out = convert_format(boxes, LowerSpelling(source), LowerSpelling(target),
                                images, dtype)

\* A conversion between two formats both written with capital letters returned boxes.
MixedCaseConverted ==
    /\ out.kind = "return"
    /\ source # lower(source)
    /\ target # lower(target)
    /\ lower(source) # lower(target)
    /\ Coords(out.boxes) # Coords(Given)

-----------------------------------------------------------------------------
(* C6 - the payload passes through.                                         *)

\* C6 as stated: the result has the rows and fields of the input and every
\* field after the fourth equals the input's.
PayloadUnchanged ==
    (out.kind = "return")
        => /\ DOMAIN out.boxes = DOMAIN boxes
           /\ \A i \in DOMAIN boxes :
                /\ Len(out.boxes[i]) = Len(boxes[i])
                /\ Rest(out.boxes[i]) = Rest(boxes[i])

\* C6, amended: the result has the rows and fields of the input and every
\* field after the fourth equals the input's field cast to dtype (the cast is
\* applied to the whole tensor); no conversion changes it further.
PayloadOnlyCast ==
    (out.kind = "return")
        => /\ DOMAIN out.boxes = DOMAIN boxes
           /\ \A i \in DOMAIN boxes :
                /\ Len(out.boxes[i]) = Len(boxes[i])
                /\ Rest(out.boxes[i]) = Rest(Given[i])

\* A conversion that changed coordinates of rows carrying two payload fields.
PayloadCarriedReached ==
    /\ out.kind = "return"
    /\ lower(source) # lower(target)
    /\ Len(boxes[1]) >= 6
    /\ Coords(out.boxes) # Coords(Given)
    /\ Rest(out.boxes[1]) # <<>>

-----------------------------------------------------------------------------
(* C7 - identity.                                                           *)

\* C7: converting a format to itself returns the input, cast to dtype and
\* otherwise unchanged, whatever images is; rel_xyxy to rel_xyxy without
\* images raises nothing.
IdentityIsCast ==
    (out.kind # "not called" /\ ValidPair /\ lower(source) = lower(target))
        => /\ out.kind = "return"
           /\ out.boxes = [i \in DOMAIN boxes |->
                             [j \in DOMAIN boxes[i] |->
                                RoundTo(boxes[i][j].m, boxes[i][j].e, Precision(dtype))]]

\* rel_xyxy to rel_xyxy without images returned, and the cast rounded a value.
RelIdentityWithoutImages ==
    /\ out.kind = "return"
    /\ lower(source) = REL_XYXY
    /\ lower(target) = REL_XYXY
    /\ images = NoImages
    /\ out.boxes # boxes

-----------------------------------------------------------------------------
(* Vocabulary of the properties of DenseNet.                                *)

\* Marks, in the array of flags m (one per tensor), the tensors that the
\* marked tensors are computed from.  A tensor's inputs were created before
\* it, so one sweep over the tensors hi, hi-1, ..., lo (lo <= hi) suffices;
\* the sweep is halved, and the upper half evaluated first (its domain is
\* that of m), to keep the evaluation shallow.
RECURSIVE MarkInputs(_, _, _)
MarkInputs(m, ins, j) ==
    IF j > Len(ins) THEN m ELSE MarkInputs([m EXCEPT ![ins[j]] = TRUE], ins, j + 1)

RECURSIVE UpstreamSweep(_, _, _)
UpstreamSweep(lo, hi, m) ==
    IF lo = hi
    THEN IF m[hi] THEN MarkInputs(m, nodes[hi].inputs, 1) ELSE m
    ELSE LET mid == (lo + hi) \div 2
             upper == UpstreamSweep(mid + 1, hi, m)
         IN  IF DOMAIN upper = DOMAIN m THEN UpstreamSweep(lo, mid, upper) ELSE m

\* the tensors that tensor n is computed from, n included
Upstream(n) ==
    LET m == UpstreamSweep(1, Len(nodes), [k \in DOMAIN nodes |-> k = n])
    IN  {k \in DOMAIN nodes : m[k]}

\* tensor k lies on a path from the model's input to its output
OnModelPath(k) == k \in Upstream(model.output) /\ model.inputs \in Upstream(k)

LayerOf(k) == layers[nodes[k].layer]

IsOutputOf(k, type) == nodes[k].layer # 0 /\ LayerOf(k).type = type

\* the output of the last convolutional block: the Activation named "relu"
LastBlockOutput ==
    CHOOSE k \in DOMAIN nodes : nodes[k].layer # 0 /\ LayerOf(k).name = <<"relu">>

-----------------------------------------------------------------------------
(* C8 - preprocessing.                                                      *)

\* C8: in the model built, the input passes through a Rescaling(1/255.0)
\* layer, whose output the first ZeroPadding2D takes, exactly when
\* include_preprocessing is true.
RescalingOnInputPath ==
    model.built
        => (args.include_preprocessing
              <=> \E k \in DOMAIN nodes :
                    /\ IsOutputOf(k, "Rescaling")
                    /\ OnModelPath(k)
                    /\ nodes[k].inputs = <<model.inputs>>
                    /\ \E z \in DOMAIN nodes :
                          IsOutputOf(z, "ZeroPadding2D") /\ nodes[z].inputs = <<k>>)

-----------------------------------------------------------------------------
(* C9 - the weights argument.                                               *)

\* C9: weights that are neither None nor an existing path end the call with
\* ValueError at its first step: before the input_shape test, with no input
\* tensor and no layer created; DenseNet121, DenseNet169 and DenseNet201 run
\* with weights "imagenet" when the caller passes none.  A call that returns
\* has called load_weights once, with weights, after building the model, when
\* weights is a path, and never when it is None.
WeightsValidatedEagerly ==
    /\ (pc # "call" /\ call.fn # "DenseNet" /\ call.weights = Omitted)
          => args.weights = "imagenet"
    /\ (pc \notin {"call", "check_weights"} /\ args.weights # None /\ args.weights \notin files)
          => /\ pc = "raised"
             /\ raised = "ValueError: weights"
             /\ trace = <<"call", "check_weights">>
             /\ layers = <<>>
             /\ nodes = <<>>
             /\ img_input = 0
             /\ ~model.built
             /\ loads = <<>>
    /\ loads # <<>> => model.built /\ loads = <<args.weights>> /\ args.weights \in files
    /\ pc = "returned"
          => /\ model.built
             /\ loads = (IF args.weights = None THEN <<>> ELSE <<args.weights>>)
             /\ \E i, j \in DOMAIN trace :
                   i < j /\ trace[i] = "model" /\ trace[j] = "load_weights"

\* DenseNet201 called without weights, include_top and input_shape (which the
\* input_shape test would reject too) ended on the weights test.
DefaultWeightsRejected ==
    /\ pc = "raised"
    /\ raised = "ValueError: weights"
    /\ call.fn = "DenseNet201"
    /\ call.weights = Omitted
    /\ args.include_top
    /\ args.input_shape = <<NoneDim, NoneDim, 3>>

-----------------------------------------------------------------------------
(* C10 - the head.                                                          *)

Rank(k) == Len(nodes[k].shape)

\* C10: after the last convolutional block exactly one head follows.  With
\* include_top: GlobalAveragePooling2D, then Dense with `classes` units and
\* `classifier_activation`, whatever pooling is.  Without: global average
\* pooling for "avg", global max pooling for "max" (2D outputs), and nothing
\* for None (the 4D output of the block).
HeadSelection ==
    model.built
        => LET r == LastBlockOutput
               c == nodes[r].shape[BN_AXIS + 1]
           IN  /\ Rank(r) = 4
               /\ args.include_top
                    => /\ Len(nodes) = r + 2
                       /\ model.output = r + 2
                       /\ IsOutputOf(r + 1, "GlobalAveragePooling2D")
                       /\ nodes[r + 1].inputs = <<r>>
                       /\ IsOutputOf(r + 2, "Dense")
                       /\ nodes[r + 2].inputs = <<r + 1>>
                       /\ LayerOf(r + 2).arg = args.classes
                       /\ LayerOf(r + 2).act = args.classifier_activation
                       /\ nodes[r + 2].shape = <<NoneDim, args.classes>>
               /\ (~args.include_top /\ args.pooling = "avg")
                    => /\ Len(nodes) = r + 1
                       /\ model.output = r + 1
                       /\ IsOutputOf(r + 1, "GlobalAveragePooling2D")
                       /\ nodes[r + 1].inputs = <<r>>
                       /\ nodes[r + 1].shape = <<NoneDim, c>>
               /\ (~args.include_top /\ args.pooling = "max")
                    => /\ Len(nodes) = r + 1
                       /\ model.output = r + 1
                       /\ IsOutputOf(r + 1, "GlobalMaxPooling2D")
                       /\ nodes[r + 1].inputs = <<r>>
                       /\ nodes[r + 1].shape = <<NoneDim, c>>
               /\ (~args.include_top /\ args.pooling = None)
                    => /\ Len(nodes) = r
                       /\ model.output = r
                       /\ Rank(model.output) = 4

\* A model with the classifier was returned though pooling="max" was passed.
TopWithPoolingReturned ==
    /\ pc = "returned"
    /\ args.include_top
    /\ args.pooling = "max"
    /\ Rank(model.output) = 2

-----------------------------------------------------------------------------
(* C11 - include_top needs a static input_shape.                            *)

HasNoneDim == \E i \in 1..Len(args.input_shape) : args.input_shape[i] = NoneDim

PastShapeTest == pc \notin {"call", "check_weights", "check_input_shape"}

\* C11: with include_top true and None anywhere in input_shape the call ends
\* with ValueError: on the input_shape test when the weights test passed, as
\* the second step of the call and with no input tensor, layer or model
\* created.  The input_shape error is raised in no other case, so
\* include_top=False goes on with a shape that has None dimensions.  A call
\* that leaves include_top and input_shape out and runs with weights None
\* ends with that error and does not return.
StaticShapeRequired ==
    /\ (PastShapeTest /\ args.include_top /\ HasNoneDim)
          => /\ pc = "raised"
             /\ raised = (IF args.weights = None \/ args.weights \in files
                          THEN "ValueError: input_shape" ELSE "ValueError: weights")
             /\ layers = <<>>
             /\ nodes = <<>>
             /\ img_input = 0
             /\ ~model.built
    /\ raised = "ValueError: input_shape"
          => /\ args.include_top
             /\ HasNoneDim
             /\ trace = <<"call", "check_weights", "check_input_shape">>
    /\ (PastShapeTest /\ ~args.include_top)
          => raised # "ValueError: input_shape"
    /\ (PastShapeTest /\ (~args.include_top \/ ~HasNoneDim)
            /\ (args.weights = None \/ args.weights \in files))
          => /\ pc # "raised"
             /\ pc = "input" \/ "input" \in {trace[i] : i \in DOMAIN trace}
    /\ (PastShapeTest /\ call.include_top = Omitted /\ call.input_shape = <<Omitted>>
            /\ args.weights = None)
          => /\ args.input_shape = <<NoneDim, NoneDim, 3>>
             /\ pc = "raised"
             /\ raised = "ValueError: input_shape"
             /\ ~model.built

\* DenseNet called with both defaults and weights None ended on the
\* input_shape test.
DefaultShapeRejected ==
    /\ pc = "raised"
    /\ raised = "ValueError: input_shape"
    /\ call.fn = "DenseNet"
    /\ call.include_top = Omitted
    /\ call.input_shape = <<Omitted>>
    /\ args.weights = None

\* a model built without the top from a shape with a None dimension
NoneShapeReturned ==
    /\ pc = "returned"
    /\ ~args.include_top
    /\ HasNoneDim
    /\ model.built

====
